---- MODULE Spec2Model ----
(***************************************************************************)
(* The two ETL flows of the repository (etl_s3_pipeline in                 *)
(* flows/etl-s3-upload-pipeline/simple-example-etl.py and etl_cicd_pipeline *)
(* in flows/etl-cicd-pipeline/filled-example-etl.py) as a state machine.    *)
(*                                                                         *)
(* A flow run walks through its tasks one after the other.  The tasks hand *)
(* their data to each other through files with fixed names in the working  *)
(* directory and upload them under fixed keys to a bucket, so the files and *)
(* the bucket are shared by all runs.                                       *)
(*                                                                         *)
(* JSON values are records [t, n, s]: t is the JSON type, n the number of   *)
(* an integer, s the characters of a string.  A JSON document on disk is    *)
(* modelled by the value json.load gives for it: for the value types used   *)
(* here (integers, strings, null) json.dumps followed by json.load returns  *)
(* the value it was given.                                                  *)
(***************************************************************************)
EXTENDS Integers, Sequences, FiniteSets, TLC

VARIABLES
    pc,          \* pc[r]: the place of run r in main()
    flow,        \* flow[r]: "s3" (etl_s3_pipeline) or "cicd" (etl_cicd_pipeline)
    min_stars,   \* min_stars[r]: main()'s argument (etl_s3_pipeline only)
    response,    \* response[r]: the body httpx.get returned to run r
    fs,          \* the working directory: file name -> content
    bucket,      \* the S3 bucket: key -> content
    is_valid,    \* is_valid[r]: first component of validate_data's result
    message,     \* message[r]: second component of validate_data's result
    validated,   \* validated[r]: the GithubRepoSchema instance validate_data built
    produced,    \* produced[r][f]: what run r's task wrote to file f
    uploaded,    \* uploaded[r][k]: what run r uploaded under key k
    ran,         \* ran[r][stage]: how many times the stage's body executed
    attempt,     \* attempt[r]: failed attempts of the task run r is at
    emails,      \* emails[r]: the notifications run r submitted
    error,       \* error[r]: the task and the exception that ended run r as failed
    seen,        \* seen[r]: what validate_data's last execution read and met
    notify,      \* notify[r]: how the last notification run r tried to send ended
    worker       \* the run of data_processing_flow (flows/process-worker/main.py)

vars == <<pc, flow, min_stars, response, fs, bucket, is_valid, message,
          validated, produced, uploaded, ran, attempt, emails, error, seen,
          notify, worker>>

(***************************************************************************)
(* Bounds of the model.                                                    *)
(***************************************************************************)
\* counts range over -1..MaxCount, next to the values the scenarios use
MaxCount == 2

AllRuns == {1, 2}

(***************************************************************************)
(* JSON values.                                                            *)
(***************************************************************************)
IntV(k) == [t |-> "int", n |-> k, s |-> <<>>]
StrV(chars) == [t |-> "str", n |-> 0, s |-> chars]
NullV == [t |-> "null", n |-> 0, s |-> <<>>]
\* a nested JSON object (only in a raw response)
ObjV == [t |-> "obj", n |-> 0, s |-> <<>>]
\* the key is not in the object
Absent == [t |-> "absent", n |-> 0, s |-> <<>>]

NameFields == <<"name", "full_name">>
CountFields == <<"stargazers_count", "watchers_count", "forks_count">>
\* the fields of GithubRepoSchema, in the order of the class
Fields == NameFields \o CountFields
FieldSet == {Fields[i] : i \in 1..Len(Fields)}
CountFieldSet == {CountFields[i] : i \in 1..Len(CountFields)}
NameFieldSet == {NameFields[i] : i \in 1..Len(NameFields)}

NoRecord == [f \in FieldSet |-> Absent]

(***************************************************************************)
(* pydantic's conversion of a string to an int: an optional sign and then   *)
(* decimal digits only.                                                     *)
(***************************************************************************)
DigitVal == [c \in {"0", "1", "2", "3", "4", "5", "6", "7", "8", "9"} |->
               CASE c = "0" -> 0 [] c = "1" -> 1 [] c = "2" -> 2 [] c = "3" -> 3
                 [] c = "4" -> 4 [] c = "5" -> 5 [] c = "6" -> 6 [] c = "7" -> 7
                 [] c = "8" -> 8 [] c = "9" -> 9]

Unsigned(chars) == IF Len(chars) > 0 /\ chars[1] = "-" THEN Tail(chars) ELSE chars

IsIntString(chars) ==
    /\ Len(Unsigned(chars)) > 0
    /\ \A i \in 1..Len(Unsigned(chars)) : Unsigned(chars)[i] \in DOMAIN DigitVal

RECURSIVE DigitsToNat(_)
DigitsToNat(chars) ==
    IF chars = <<>> THEN 0
    ELSE 10 * DigitsToNat(SubSeq(chars, 1, Len(chars) - 1)) + DigitVal[chars[Len(chars)]]

ParseInt(chars) ==
    IF Len(chars) > 0 /\ chars[1] = "-"
    THEN 0 - DigitsToNat(Unsigned(chars))
    ELSE DigitsToNat(chars)

(***************************************************************************)
(* GithubRepoSchema of a dict: pydantic checks every field and collects the *)
(* errors; when there is none the instance holds the converted values (a    *)
(* numeric string given for an int field becomes the int).  Nothing in the  *)
(* class constrains the sign of a count or the length of a name.            *)
(***************************************************************************)
\* FieldError with the five fields declared Optional: a missing field passes
FieldError_Optional(f, v) ==
    IF v.t = "absent" THEN ""
    ELSE IF f \in NameFieldSet
         THEN (IF v.t = "str" THEN "" ELSE "string_type")
         ELSE CASE v.t = "int" -> ""
                [] v.t = "str" -> (IF IsIntString(v.s) THEN "" ELSE "int_parsing")
                [] OTHER -> "int_type"

FieldError(f, v) ==
    IF v.t = "absent" THEN "missing"
    ELSE IF f \in NameFieldSet
         THEN (IF v.t = "str" THEN "" ELSE "string_type")
         ELSE CASE v.t = "int" -> ""
                [] v.t = "str" -> (IF IsIntString(v.s) THEN "" ELSE "int_parsing")
                [] OTHER -> "int_type"

Coerce(f, v) ==
    IF f \in CountFieldSet /\ v.t = "str" THEN IntV(ParseInt(v.s)) ELSE v

GithubRepoSchema(data) ==
    LET errs == {f \in FieldSet : FieldError(f, data[f]) # ""}
    IN  [errors |-> errs,
         inst |-> IF errs = {} THEN [f \in FieldSet |-> Coerce(f, data[f])]
                  ELSE NoRecord]

(***************************************************************************)
(* Messages.  A message is the text of a format string: prefix and body    *)
(* are the literal parts, fields the field names and num the number the     *)
(* text shows.                                                              *)
(***************************************************************************)
Msg(prefix, body, fields, num) ==
    [prefix |-> prefix, body |-> body, fields |-> fields, num |-> num]

NoMessage == Msg("", "", {}, 0)

\* str() of a pydantic ValidationError: the count, the model and every field in error
PydanticText == "{num} validation error(s) for GithubRepoSchema {fields}"
\* str() of a KeyError: the repr of the key
KeyErrorText == "'{fields}'"
\* str() of Exception(None)
NoneText == "None"
OSErrorText == "[Errno 2] No such file or directory"
JSONDecodeErrorText == "Expecting value: line 1 column 1 (char 0)"
BlockLoadErrorText == "Unable to find block document named etl-pipeline-notifications"

\* the threshold written into validate_data of etl_cicd_pipeline
CicdMinStars == 10

\* what happens when a task opens and parses a file
ReadOutcomes == {"ok", "oserror", "jsonerror"}
\* what happens when a notification is sent: it is submitted, submitting
\* raises, or loading the credentials block raises
EmailOutcomes == {"sent", "submit_failed", "load_failed"}

ReadErrorText(rd) == IF rd = "oserror" THEN OSErrorText ELSE JSONDecodeErrorText
ReadErrorType(rd) == IF rd = "oserror" THEN "OSError" ELSE "JSONDecodeError"

\* how a try block ends: exc = "" is a return, otherwise the exception raised
Outcome(exc, valid, msg, inst, sent) ==
    [exc |-> exc, is_valid |-> valid, message |-> msg, inst |-> inst, sent |-> sent]

(***************************************************************************)
(* validate_data of etl_s3_pipeline.                                       *)
(***************************************************************************)
\* validate_try_s3 with the rule written "<=": a repository with exactly
\* min_stars stars is turned away
validate_try_s3_OffByOne(rd, data, min) ==
    IF rd # "ok"
    THEN Outcome(ReadErrorType(rd), FALSE, Msg("", ReadErrorText(rd), {}, 0), NoRecord, FALSE)
    ELSE LET repo_data == GithubRepoSchema(data)
         IN  IF repo_data.errors # {}
             THEN Outcome("ValidationError", FALSE,
                          Msg("", PydanticText, repo_data.errors,
                              Cardinality(repo_data.errors)),
                          NoRecord, FALSE)
             ELSE IF repo_data.inst["stargazers_count"].n <= min
             THEN Outcome("", FALSE,
                          Msg("", "Repository has fewer than {num} stars", {}, min),
                          repo_data.inst, FALSE)
             ELSE Outcome("", TRUE, Msg("", "Validation successful", {}, 0),
                          repo_data.inst, FALSE)

validate_try_s3(rd, data, min) ==
    IF rd # "ok"
    THEN Outcome(ReadErrorType(rd), FALSE, Msg("", ReadErrorText(rd), {}, 0), NoRecord, FALSE)
    ELSE LET repo_data == GithubRepoSchema(data)
         IN  IF repo_data.errors # {}
             THEN Outcome("ValidationError", FALSE,
                          Msg("", PydanticText, repo_data.errors,
                              Cardinality(repo_data.errors)),
                          NoRecord, FALSE)
             ELSE IF repo_data.inst["stargazers_count"].n < min
             THEN Outcome("", FALSE,
                          Msg("", "Repository has fewer than {num} stars", {}, min),
                          repo_data.inst, FALSE)
             ELSE Outcome("", TRUE, Msg("", "Validation successful", {}, 0),
                          repo_data.inst, FALSE)

\* both except clauses return (False, str(e))
validate_data_s3(rd, data, min) ==
    LET o == validate_try_s3(rd, data, min)
    IN  IF o.exc = "" THEN o
        ELSE Outcome("", FALSE, o.message, o.inst, o.sent)

(***************************************************************************)
(* validate_data of etl_cicd_pipeline.                                     *)
(***************************************************************************)
\* the first key of the restructuring dict that flattened_data lacks
FirstMissing(data) ==
    LET idx == {i \in 1..Len(Fields) : data[Fields[i]].t = "absent"}
    IN  IF idx = {} THEN ""
        ELSE Fields[CHOOSE i \in idx : \A j \in idx : i <= j]

\* send_error_email: the block is loaded outside the try, the submit inside
send_error_email(em) ==
    [raises |-> em = "load_failed", sent |-> em = "sent"]

validate_try_cicd(rd, flattened_data, em) ==
    IF rd # "ok"
    THEN Outcome(ReadErrorType(rd), FALSE, Msg("", ReadErrorText(rd), {}, 0), NoRecord, FALSE)
    ELSE IF FirstMissing(flattened_data) # ""
    THEN Outcome("KeyError", FALSE,
                 Msg("", KeyErrorText, {FirstMissing(flattened_data)}, 0),
                 NoRecord, FALSE)
    ELSE LET validated_data == GithubRepoSchema(flattened_data)
         IN  IF validated_data.errors # {}
             THEN Outcome("ValidationError", FALSE,
                          Msg("", PydanticText, validated_data.errors,
                              Cardinality(validated_data.errors)),
                          NoRecord, FALSE)
             ELSE IF validated_data.inst["stargazers_count"].n < CicdMinStars
             THEN \* raise Exception(send_error_email(error_message))
                  IF send_error_email(em).raises
                  THEN Outcome("ValueError", FALSE, Msg("", BlockLoadErrorText, {}, 0),
                               validated_data.inst, FALSE)
                  ELSE Outcome("Exception", FALSE, Msg("", NoneText, {}, 0),
                               validated_data.inst, send_error_email(em).sent)
             ELSE Outcome("", TRUE, Msg("", "Data validation successful", {}, 0),
                          validated_data.inst, FALSE)

\* validate_data_cicd without its last except clause: only a
\* ValidationError is turned into a result, any other exception leaves the task
validate_data_cicd_NoCatchAll(rd, flattened_data, em) ==
    LET o == validate_try_cicd(rd, flattened_data, em)
    IN  IF o.exc = "ValidationError"
        THEN Outcome("", FALSE,
                     [o.message EXCEPT !.prefix = "Schema validation failed: "],
                     o.inst, o.sent)
        ELSE o

validate_data_cicd(rd, flattened_data, em) ==
    LET o == validate_try_cicd(rd, flattened_data, em)
    IN  IF o.exc = "" THEN o
        ELSE IF o.exc = "ValidationError"
        THEN Outcome("", FALSE,
                     [o.message EXCEPT !.prefix = "Schema validation failed: "],
                     o.inst, o.sent)
        ELSE Outcome("", FALSE,
                     [o.message EXCEPT !.prefix = "Validation error: "],
                     o.inst, o.sent)

(***************************************************************************)
(* The transforming tasks.                                                 *)
(***************************************************************************)
\* pd.json_normalize turns a nested object into dotted keys, so the key
\* itself is no longer in the flattened record
Flatten(data) ==
    [f \in FieldSet |-> IF data[f].t = "obj" THEN Absent ELSE data[f]]

MissingKeys(data) == {f \in FieldSet : data[f].t = "absent"}

\* the try block of clean_data: the five values are copied from the file
clean_data(rd, data) ==
    IF rd # "ok" THEN [exc |-> ReadErrorType(rd), rec |-> NoRecord]
    ELSE IF MissingKeys(data) # {} THEN [exc |-> "KeyError", rec |-> NoRecord]
    ELSE [exc |-> "", rec |-> [f \in FieldSet |-> data[f]]]

\* Round2 cutting the digits after the second instead of rounding
Round2_Truncate(num, den) == (100 * num) \div den

\* Python's round(num / den, 2) for den > 0, in hundredths: the nearest
\* hundredth, and the even one when num / den lies halfway between two and
\* is a binary fraction (den a power of two), which the double holds exactly
Round2(num, den) ==
    LET q == (100 * num) \div den
        rem == 100 * num - q * den
    IN  IF 2 * rem < den THEN q
        ELSE IF 2 * rem > den THEN q + 1
        ELSE IF q % 2 = 0 THEN q ELSE q + 1

Metrics(stars, watchers, forks) ==
    [total_stars |-> stars, total_watchers |-> watchers, total_forks |-> forks]

AggregateRecord(name, total, metrics, ratio) ==
    [repository_name |-> name, total_engagement |-> total, metrics |-> metrics,
     engagement_ratio |-> ratio]

NoAggregate == AggregateRecord(Absent, 0, Metrics(0, 0, 0), 0)

\* the try block of perform_aggregation; the timestamp, the wall-clock time,
\* is left out.  + and / raise TypeError on a str or None operand
perform_aggregation(rd, data) ==
    LET stars == data["stargazers_count"]
        watchers == data["watchers_count"]
        forks == data["forks_count"]
    IN  IF rd # "ok" THEN [exc |-> ReadErrorType(rd), agg |-> NoAggregate]
        ELSE IF MissingKeys(data) # {} THEN [exc |-> "KeyError", agg |-> NoAggregate]
        ELSE IF \E f \in CountFieldSet : data[f].t # "int"
        THEN [exc |-> "TypeError", agg |-> NoAggregate]
        ELSE IF watchers.n + 1 = 0
        THEN [exc |-> "ZeroDivisionError", agg |-> NoAggregate]
        ELSE [exc |-> "",
              agg |-> AggregateRecord(data["name"],
                                      stars.n + watchers.n + forks.n,
                                      Metrics(stars.n, watchers.n, forks.n),
                                      Round2(stars.n, watchers.n + 1))]

(***************************************************************************)
(* Files and bucket objects.                                               *)
(***************************************************************************)
Content(form, rec, agg) == [form |-> form, rec |-> rec, agg |-> agg]
NoFile == Content("none", NoRecord, NoAggregate)
\* text that is no JSON document
Garbage == Content("garbage", NoRecord, NoAggregate)
JsonFile(rec) == Content("json", rec, NoAggregate)
AggFile(agg) == Content("agg", NoRecord, agg)

RawPath == "raw-data-example.txt"
FlattenedPath(fl) == IF fl = "s3" THEN "flattened-data.json" ELSE "flattened-data.txt"
CleanedPath == "cleaned-data.json"
AggregatedPath == "aggregated-data.json"
Paths == {RawPath, FlattenedPath("s3"), FlattenedPath("cicd"), CleanedPath, AggregatedPath}
Keys == {RawPath, CleanedPath, AggregatedPath}

Flows == {"s3", "cicd"}
Stages == {"fetch", "flatten", "validate", "clean", "save_cleaned", "aggregate",
           "save_aggregated"}

(***************************************************************************)
(* What the GitHub API may answer and what main() may be called with.      *)
(***************************************************************************)
\* min_stars of ETLConfig when none is given
DefaultMinStars == 10

CountInts == (0 - 1)..MaxCount

NameVals == {StrV(<<"p", "r", "e", "f", "e", "c", "t">>), StrV(<<>>), NullV, ObjV, Absent}
FullNameVals == {StrV(<<"o", "/", "p">>), StrV(<<>>), Absent}
StarVals ==
    {IntV(k) : k \in CountInts \cup {CicdMinStars - 1, CicdMinStars, CicdMinStars + 1, 18000}}
    \cup {StrV(<<"1", "0">>), StrV(<<"9">>), StrV(<<"x">>), NullV, Absent}
WatcherVals ==
    {IntV(k) : k \in CountInts \cup {7, 500}} \cup {StrV(<<"0">>), Absent}
ForkVals ==
    {IntV(k) : k \in CountInts \cup {1800}} \cup {StrV(<<"2">>), Absent}

Record(name, full_name, stars, watchers, forks) ==
    [f \in FieldSet |->
        CASE f = "name" -> name
          [] f = "full_name" -> full_name
          [] f = "stargazers_count" -> stars
          [] f = "watchers_count" -> watchers
          [] f = "forks_count" -> forks]

\* the bodies of a response: a JSON object, or text that is no JSON
Responses ==
    {Garbage} \cup
    {JsonFile(Record(n, fn, st, w, fk)) :
        n \in NameVals, fn \in FullNameVals, st \in StarVals, w \in WatcherVals,
        fk \in ForkVals}

MinStarsVals == {1, DefaultMinStars, 20000}

\* two repositories, for two runs side by side
RepoName(r) == IF r = 1 THEN StrV(<<"a">>) ELSE StrV(<<"b">>)
ConcResponses(r) ==
    {JsonFile(Record(RepoName(r), RepoName(r), st, IntV(r), IntV(0))) :
        st \in {IntV(CicdMinStars + r), IntV(r), Absent}}

(***************************************************************************)
(* The orchestrator: a task whose body raises is run again while it has    *)
(* retries left (the retries of its @task decorator, none when the          *)
(* decorator gives none); after that the exception leaves the flow.         *)
(***************************************************************************)
TaskRetries(fl, task) == IF fl = "cicd" /\ task = "validate" THEN 2 ELSE 0

NoError == [task |-> "", exc |-> ""]

Raised(r, task, exc) ==
    /\ pc' = [pc EXCEPT ![r] = IF attempt[r] < TaskRetries(flow[r], task)
                               THEN @ ELSE "failed"]
    /\ error' = [error EXCEPT ![r] = IF attempt[r] < TaskRetries(flow[r], task)
                                     THEN @ ELSE [task |-> task, exc |-> exc]]
    /\ attempt' = [attempt EXCEPT ![r] = IF attempt[r] < TaskRetries(flow[r], task)
                                         THEN @ + 1 ELSE 0]

Returned(r, next) ==
    /\ pc' = [pc EXCEPT ![r] = next]
    /\ UNCHANGED error
    /\ attempt' = [attempt EXCEPT ![r] = 0]

Executes(r, task) == ran' = [ran EXCEPT ![r][task] = @ + 1]

\* a file that is no JSON document does not parse
EffRead(rd, file) ==
    IF rd = "ok" /\ file.form = "none" THEN "oserror"
    ELSE IF rd = "ok" /\ file.form = "garbage" THEN "jsonerror"
    ELSE rd

(***************************************************************************)
(* data_processing_flow of flows/process-worker/main.py.                   *)
(***************************************************************************)
\* retries of @task process_data and of @flow data_processing_flow
WorkerTaskRetries == 2
WorkerFlowRetries == 1
\* input_value when the flow is called without one
DefaultInputValue == 10
\* the inputs of the model: -1..MaxInput and the default
MaxInput == 8
WorkerInputs == ((0 - 1)..MaxInput) \cup {DefaultInputValue}

\* str of a Python int, as the sequence of its characters
Digit == [d \in 0..9 |-> CHOOSE c \in DOMAIN DigitVal : DigitVal[c] = d]

RECURSIVE StrNat(_)
StrNat(n) ==
    IF n < 10 THEN <<Digit[n]>> ELSE StrNat(n \div 10) \o <<Digit[n % 10]>>

Str(n) == IF n < 0 THEN <<"-">> \o StrNat(0 - n) ELSE StrNat(n)

\* "Processed data: "
ProcessedPrefix ==
    <<"P", "r", "o", "c", "e", "s", "s", "e", "d", " ", "d", "a", "t", "a", ":", " ">>

\* process_data: random.random() < 0.2 is the choice fails
process_data(data, fails) ==
    IF fails THEN [exc |-> "Exception", result |-> <<>>]
    ELSE [exc |-> "", result |-> ProcessedPrefix \o Str(data * 2)]

validate_result(result) == Len(result) > 0

\* RetriesLeft granting one run more than declared
RetriesLeft_OneMore(run_count, retries) == run_count <= retries + 1

\* retries=n: a task or flow whose run raised is run again while the runs it
\* has had do not exceed n
RetriesLeft(run_count, retries) == run_count <= retries

\* pc: the place in the flow; input: input_value; flow_runs: executions of
\* the flow body; bodies: executions of process_data's body, bodies_here:
\* those in the current execution of the flow body, raises: those that
\* raised; validations: executions of validate_result; result, is_valid:
\* the flow's locals; returned: the flow returned its dict
WorkerIdle ==
    [pc |-> "idle", input |-> 0, flow_runs |-> 0, bodies |-> 0,
     bodies_here |-> 0, raises |-> 0, validations |-> 0,
     result |-> <<>>, is_valid |-> FALSE, returned |-> FALSE]

Init ==
    /\ pc = [r \in AllRuns |-> "idle"]
    /\ flow = [r \in AllRuns |-> "s3"]
    /\ min_stars = [r \in AllRuns |-> 0]
    /\ response = [r \in AllRuns |-> NoFile]
    /\ fs = [p \in Paths |-> NoFile]
    /\ bucket = [k \in Keys |-> NoFile]
    /\ is_valid = [r \in AllRuns |-> FALSE]
    /\ message = [r \in AllRuns |-> NoMessage]
    /\ validated = [r \in AllRuns |-> NoRecord]
    /\ produced = [r \in AllRuns |-> [p \in Paths |-> NoFile]]
    /\ uploaded = [r \in AllRuns |-> [k \in Keys |-> NoFile]]
    /\ ran = [r \in AllRuns |-> [t \in Stages |-> 0]]
    /\ attempt = [r \in AllRuns |-> 0]
    /\ emails = [r \in AllRuns |-> {}]
    /\ error = [r \in AllRuns |-> NoError]
    /\ seen = [r \in AllRuns |-> [rd |-> "", rec |-> NoRecord]]
    /\ notify = [r \in AllRuns |-> ""]
    /\ worker = WorkerIdle

(***************************************************************************)
(* main() is called; etl_cicd_pipeline first pauses for the repository.    *)
(***************************************************************************)
Call(r, fl, min) ==
    /\ pc[r] = "idle"
    /\ flow' = [flow EXCEPT ![r] = fl]
    /\ min_stars' = [min_stars EXCEPT ![r] = IF fl = "s3" THEN min ELSE 0]
    /\ pc' = [pc EXCEPT ![r] = IF fl = "cicd" THEN "paused" ELSE "fetch"]
    /\ UNCHANGED <<response, fs, bucket, is_valid, message, validated, produced,
                   uploaded, ran, attempt, emails, error, seen>>
    /\ UNCHANGED <<notify, worker>>

Resume(r) ==
    /\ pc[r] = "paused"
    /\ pc' = [pc EXCEPT ![r] = "fetch"]
    /\ UNCHANGED <<flow, min_stars, response, fs, bucket, is_valid, message,
                   validated, produced, uploaded, ran, attempt, emails, error, seen>>
    /\ UNCHANGED <<notify, worker>>

(***************************************************************************)
(* The tasks, in the order main() calls them.  A task is one step: it      *)
(* reads its file, computes, writes its file.                               *)
(***************************************************************************)
\* request_data_and_upload_to_s3: httpx.get, write the body, upload it
RequestDataAndUploadToS3(r, bodies) ==
    /\ pc[r] = "fetch"
    /\ Executes(r, "fetch")
    /\ \E net \in BOOLEAN, body \in bodies, up \in BOOLEAN :
          IF ~net
          THEN /\ Raised(r, "fetch", "ConnectError")
               /\ UNCHANGED <<response, fs, bucket, produced, uploaded>>
          ELSE /\ response' = [response EXCEPT ![r] = body]
               /\ fs' = [fs EXCEPT ![RawPath] = body]
               /\ produced' = [produced EXCEPT ![r][RawPath] = body]
               /\ IF up
                  THEN /\ bucket' = [bucket EXCEPT ![RawPath] = body]
                       /\ uploaded' = [uploaded EXCEPT ![r][RawPath] = body]
                       /\ Returned(r, "flatten")
                  ELSE /\ Raised(r, "fetch", "ClientError")
                       /\ UNCHANGED <<bucket, uploaded>>
    /\ UNCHANGED <<flow, min_stars, is_valid, message, validated, emails, seen>>
    /\ UNCHANGED <<notify, worker>>

\* read_and_flatten_data
ReadAndFlattenData(r) ==
    /\ pc[r] = "flatten"
    /\ Executes(r, "flatten")
    /\ \E rd \in ReadOutcomes :
          IF EffRead(rd, fs[RawPath]) # "ok"
          THEN /\ Raised(r, "flatten", ReadErrorType(EffRead(rd, fs[RawPath])))
               /\ UNCHANGED <<fs, produced>>
          ELSE LET flattened_data == JsonFile(Flatten(fs[RawPath].rec))
               IN  /\ fs' = [fs EXCEPT ![FlattenedPath(flow[r])] = flattened_data]
                   /\ produced' = [produced EXCEPT
                                     ![r][FlattenedPath(flow[r])] = flattened_data]
                   /\ Returned(r, "validate")
    /\ UNCHANGED <<flow, min_stars, response, bucket, is_valid, message, validated,
                   uploaded, emails, seen>>
    /\ UNCHANGED <<notify, worker>>

\* AfterValidate without the early return
AfterValidate_NoReturn(valid) == "clean"

\* main(): "if not is_valid: return"
AfterValidate(valid) == IF valid THEN "clean" ELSE "rejected"

\* validate_data, and main()'s test of its result
ValidateData(r) ==
    /\ pc[r] = "validate"
    /\ Executes(r, "validate")
    /\ \E rd \in ReadOutcomes, em \in EmailOutcomes :
          LET file == fs[FlattenedPath(flow[r])]
              o == IF flow[r] = "s3"
                   THEN validate_data_s3(EffRead(rd, file), file.rec, min_stars[r])
                   ELSE validate_data_cicd(EffRead(rd, file), file.rec, em)
          IN  /\ seen' = [seen EXCEPT ![r] = [rd |-> EffRead(rd, file), rec |-> file.rec]]
              /\ validated' = [validated EXCEPT ![r] = o.inst]
              /\ emails' = [emails EXCEPT ![r] =
                              IF o.sent THEN @ \cup {"etl-pipeline-validation-failed"}
                              ELSE @]
              \* send_error_email is called when the business rule fails
              /\ notify' = [notify EXCEPT ![r] =
                              IF flow[r] = "cicd" /\ o.inst # NoRecord /\ ~o.is_valid
                              THEN em ELSE @]
              /\ IF o.exc # ""
                 THEN /\ Raised(r, "validate", o.exc)
                      /\ UNCHANGED <<is_valid, message>>
                 ELSE /\ is_valid' = [is_valid EXCEPT ![r] = o.is_valid]
                      /\ message' = [message EXCEPT ![r] = o.message]
                      /\ Returned(r, AfterValidate(o.is_valid))
    /\ UNCHANGED <<flow, min_stars, response, fs, bucket, produced, uploaded>>
    /\ UNCHANGED worker

\* clean_data: main() passes it the flattened file
CleanData(r) ==
    /\ pc[r] = "clean"
    /\ Executes(r, "clean")
    /\ \E rd \in ReadOutcomes :
          LET file == fs[FlattenedPath(flow[r])]
              o == clean_data(EffRead(rd, file), file.rec)
          IN  IF o.exc # ""
              THEN /\ Raised(r, "clean", o.exc)
                   /\ UNCHANGED <<fs, produced>>
              ELSE /\ fs' = [fs EXCEPT ![CleanedPath] = JsonFile(o.rec)]
                   /\ produced' = [produced EXCEPT ![r][CleanedPath] = JsonFile(o.rec)]
                   /\ Returned(r, "save_cleaned")
    /\ UNCHANGED <<flow, min_stars, response, bucket, is_valid, message, validated,
                   uploaded, emails, seen>>
    /\ UNCHANGED <<notify, worker>>

\* save_cleaned_data: upload_to_s3 of the cleaned file
SaveCleanedData(r) ==
    /\ pc[r] = "save_cleaned"
    /\ Executes(r, "save_cleaned")
    /\ \E up \in BOOLEAN :
          IF up
          THEN /\ bucket' = [bucket EXCEPT ![CleanedPath] = fs[CleanedPath]]
               /\ uploaded' = [uploaded EXCEPT ![r][CleanedPath] = fs[CleanedPath]]
               /\ Returned(r, "aggregate")
          ELSE /\ Raised(r, "save_cleaned", "ClientError")
               /\ UNCHANGED <<bucket, uploaded>>
    /\ UNCHANGED <<flow, min_stars, response, fs, is_valid, message, validated,
                   produced, emails, seen>>
    /\ UNCHANGED <<notify, worker>>

\* perform_aggregation: main() passes it the cleaned file
PerformAggregation(r) ==
    /\ pc[r] = "aggregate"
    /\ Executes(r, "aggregate")
    /\ \E rd \in ReadOutcomes :
          LET file == fs[CleanedPath]
              o == perform_aggregation(EffRead(rd, file), file.rec)
          IN  IF o.exc # ""
              THEN /\ Raised(r, "aggregate", o.exc)
                   /\ UNCHANGED <<fs, produced>>
              ELSE /\ fs' = [fs EXCEPT ![AggregatedPath] = AggFile(o.agg)]
                   /\ produced' = [produced EXCEPT ![r][AggregatedPath] = AggFile(o.agg)]
                   /\ Returned(r, "save_aggregated")
    /\ UNCHANGED <<flow, min_stars, response, bucket, is_valid, message, validated,
                   uploaded, emails, seen>>
    /\ UNCHANGED <<notify, worker>>

\* send_completion_notification with the submit outside the try: a failed
\* submit raises out of it
send_completion_notification_NoTry(em) ==
    [raises |-> em # "sent", sent |-> em = "sent"]

\* send_completion_notification: the block is loaded outside the try
send_completion_notification(em) ==
    [raises |-> em = "load_failed", sent |-> em = "sent"]

\* save_aggregated_data: upload_to_s3 of the aggregated file and, in
\* etl_cicd_pipeline, the completion notification
SaveAggregatedData(r) ==
    /\ pc[r] = "save_aggregated"
    /\ Executes(r, "save_aggregated")
    /\ \E up \in BOOLEAN, em \in EmailOutcomes :
          IF ~up
          THEN /\ Raised(r, "save_aggregated", "ClientError")
               /\ UNCHANGED <<bucket, uploaded, emails, notify>>
          ELSE /\ bucket' = [bucket EXCEPT ![AggregatedPath] = fs[AggregatedPath]]
               /\ uploaded' = [uploaded EXCEPT ![r][AggregatedPath] = fs[AggregatedPath]]
               /\ notify' = [notify EXCEPT ![r] = IF flow[r] = "cicd" THEN em ELSE @]
               /\ IF flow[r] = "cicd" /\ send_completion_notification(em).raises
                  THEN /\ Raised(r, "save_aggregated", "ValueError")
                       /\ UNCHANGED emails
                  ELSE /\ emails' = [emails EXCEPT ![r] =
                                       IF flow[r] = "cicd" /\ send_completion_notification(em).sent
                                       THEN @ \cup {"etl-pipeline-completed"} ELSE @]
                       /\ Returned(r, "completed")
    /\ UNCHANGED <<flow, min_stars, response, fs, is_valid, message, validated,
                   produced, seen>>
    /\ UNCHANGED worker

Tasks(r, bodies) ==
    \/ Resume(r)
    \/ RequestDataAndUploadToS3(r, bodies)
    \/ ReadAndFlattenData(r)
    \/ ValidateData(r)
    \/ CleanData(r)
    \/ SaveCleanedData(r)
    \/ PerformAggregation(r)
    \/ SaveAggregatedData(r)

(***************************************************************************)
(* One run of either flow.                                                 *)
(***************************************************************************)
Next ==
    \/ \E fl \in Flows, min \in MinStarsVals : Call(1, fl, min)
    \/ Tasks(1, Responses)

Spec == Init /\ [][Next]_vars

(***************************************************************************)
(* Two runs of the same flow, for two repositories, in one working         *)
(* directory and one bucket: their tasks interleave.                        *)
(***************************************************************************)
SameFlow(r, fl) == \A q \in AllRuns \ {r} : pc[q] = "idle" \/ flow[q] = fl

NextConc ==
    \E r \in AllRuns :
        \/ \E fl \in Flows : SameFlow(r, fl) /\ Call(r, fl, DefaultMinStars)
        \/ Tasks(r, ConcResponses(r))

SpecConc == Init /\ [][NextConc]_vars

(***************************************************************************)
(* data_processing_flow: one run.  The engine runs process_data again      *)
(* after a raise while its retries last, then the flow body again while    *)
(* the flow's retries last.                                                *)
(***************************************************************************)
etl_vars == <<pc, flow, min_stars, response, fs, bucket, is_valid, message,
              validated, produced, uploaded, ran, attempt, emails, error, seen,
              notify>>

\* data_processing_flow(input_value) is called
WorkerCall(v) ==
    /\ worker.pc = "idle"
    /\ worker' = [worker EXCEPT !.pc = "process", !.input = v, !.flow_runs = 1]
    /\ UNCHANGED etl_vars

\* one execution of process_data's body
ProcessData ==
    /\ worker.pc = "process"
    /\ \E fails \in BOOLEAN :
          LET o == process_data(worker.input, fails)
              n == worker.bodies_here + 1
          IN  worker' = [worker EXCEPT
                  !.bodies = @ + 1,
                  !.bodies_here = n,
                  !.raises = IF o.exc # "" THEN @ + 1 ELSE @,
                  !.result = o.result,
                  !.pc = IF o.exc = "" THEN "validate"
                         ELSE IF RetriesLeft(n, WorkerTaskRetries) THEN "process"
                         ELSE "raised"]
    /\ UNCHANGED etl_vars

\* the exception left the flow body and the flow has a retry left
FlowRetry ==
    /\ worker.pc = "raised"
    /\ RetriesLeft(worker.flow_runs, WorkerFlowRetries)
    /\ worker' = [worker EXCEPT !.pc = "process", !.flow_runs = @ + 1,
                                !.bodies_here = 0]
    /\ UNCHANGED etl_vars

\* the exception left the flow body and no retry is left
FlowFail ==
    /\ worker.pc = "raised"
    /\ ~RetriesLeft(worker.flow_runs, WorkerFlowRetries)
    /\ worker' = [worker EXCEPT !.pc = "failed"]
    /\ UNCHANGED etl_vars

\* validate_result, and the flow's return
ValidateResult ==
    /\ worker.pc = "validate"
    /\ worker' = [worker EXCEPT !.validations = @ + 1,
                                !.is_valid = validate_result(worker.result),
                                !.returned = TRUE,
                                !.pc = "completed"]
    /\ UNCHANGED etl_vars

NextWorker ==
    \/ \E v \in WorkerInputs : WorkerCall(v)
    \/ ProcessData
    \/ FlowRetry
    \/ FlowFail
    \/ ValidateResult

\* the engine does not stop while a step of the run is due
SpecWorker == Init /\ [][NextWorker]_vars /\ WF_vars(NextWorker)

(***************************************************************************)
(* Properties.                                                             *)
(***************************************************************************)
\* validate_data has returned its pair to main()
ValidateReturned(r) == message[r] # NoMessage

\* the threshold validate_data compares the stars with
Threshold(r) == IF flow[r] = "s3" THEN min_stars[r] ELSE CicdMinStars

Downstream == {"clean", "save_cleaned", "aggregate", "save_aggregated"}

NothingDownstream(r) ==
    /\ \A t \in Downstream : ran[r][t] = 0
    /\ produced[r][CleanedPath] = NoFile /\ produced[r][AggregatedPath] = NoFile
    /\ uploaded[r][CleanedPath] = NoFile /\ uploaded[r][AggregatedPath] = NoFile

\* C1: in both flows a run whose validate_data returned is_valid = False is
\* at "rejected" for good: clean_data, save_cleaned_data, perform_aggregation
\* and save_aggregated_data never executed and it wrote and uploaded no
\* cleaned or aggregated file; clean_data executes only after validate_data
\* returned True, perform_aggregation only after clean_data wrote its file.
C1_RejectedIsTerminal ==
    \A r \in AllRuns :
        /\ (ValidateReturned(r) /\ ~is_valid[r]) =>
               (pc[r] = "rejected" /\ NothingDownstream(r))
        /\ pc[r] = "rejected" => (ValidateReturned(r) /\ ~is_valid[r])
        /\ ran[r]["clean"] > 0 =>
               (ValidateReturned(r) /\ is_valid[r] /\ ran[r]["validate"] > 0)
        /\ pc[r] \in Downstream => (ValidateReturned(r) /\ is_valid[r])
        /\ (ran[r]["aggregate"] > 0 \/ pc[r] = "aggregate") =>
               (ran[r]["clean"] > 0 /\ produced[r][CleanedPath] # NoFile)

\* a run of each flow that validate_data turned away
C1_Witness ==
    /\ pc[1] = "rejected" /\ flow[1] = "cicd"
    /\ ran[1]["validate"] = 1 /\ ~is_valid[1]

\* every field is there with the type GithubRepoSchema declares for it
SatisfiesSchema(rec) ==
    /\ \A f \in NameFieldSet : rec[f].t = "str"
    /\ \A f \in CountFieldSet : rec[f].t = "int"

\* C2: when the flattened record validate_data read has all five fields
\* with their declared types, is_valid is True exactly when stargazers_count
\* is at least the threshold (min_stars in etl_s3_pipeline, 10 in
\* etl_cicd_pipeline).
C2_RuleDecidesValidRecords ==
    \A r \in AllRuns :
        (ValidateReturned(r) /\ seen[r].rd = "ok" /\ SatisfiesSchema(seen[r].rec)) =>
            (is_valid[r] <=> seen[r].rec["stargazers_count"].n >= Threshold(r))

\* a record with exactly the threshold's stars was accepted
C2_Witness ==
    /\ ValidateReturned(1) /\ seen[1].rd = "ok" /\ SatisfiesSchema(seen[1].rec)
    /\ flow[1] = "s3" /\ min_stars[1] = DefaultMinStars
    /\ seen[1].rec["stargazers_count"].n = DefaultMinStars
    /\ is_valid[1]

IsSchemaReason(m) ==
    m.body = PydanticText \/ m.prefix = "Schema validation failed: "
IsRuleReason(m) ==
    \/ m.body = "Repository has fewer than {num} stars"
    \/ m.prefix = "Business rule validation failed: "

\* a field of the record is missing or of a type the schema turns down
BreaksSchema(rec) == \E f \in FieldSet : FieldError(f, rec[f]) # ""

\* the schema is met and the stars are below the threshold
BreaksRule(r, rec) ==
    /\ ~BreaksSchema(rec)
    /\ Coerce("stargazers_count", rec["stargazers_count"]).n < Threshold(r)

\* C4: the message of a rejection tells its kind: a rejection for a missing
\* or mistyped field carries a schema message, a rejection for stars below
\* the threshold a business-rule message, and no message is both.
C4_ReasonTellsKind ==
    \A r \in AllRuns :
        (ValidateReturned(r) /\ ~is_valid[r] /\ seen[r].rd = "ok") =>
            /\ BreaksSchema(seen[r].rec) =>
                   (IsSchemaReason(message[r]) /\ ~IsRuleReason(message[r]))
            /\ BreaksRule(r, seen[r].rec) =>
                   (IsRuleReason(message[r]) /\ ~IsSchemaReason(message[r]))

\* C5: no run that validate_data accepted fails in perform_aggregation with
\* a division by zero: the denominator watchers_count + 1 of the cleaned
\* record it is about to aggregate is not 0.
C5_NoDivisionByZero ==
    \A r \in AllRuns :
        /\ ~(error[r].task = "aggregate" /\ error[r].exc = "ZeroDivisionError")
        /\ (pc[r] = "aggregate" /\ is_valid[r]
              /\ fs[CleanedPath].rec["watchers_count"].t = "int") =>
               fs[CleanedPath].rec["watchers_count"].n + 1 # 0

\* the invariant of RepoStats
RepoStatsInvariant(rec) ==
    /\ \A f \in NameFieldSet : rec[f].t = "str" /\ Len(rec[f].s) > 0
    /\ \A f \in CountFieldSet : rec[f].t = "int" /\ rec[f].n >= 0

\* C6: every record validate_data accepts satisfies the RepoStats invariant:
\* both names are non-empty text and the three counts are integers >= 0.
C6_AcceptedMeetsInvariant ==
    \A r \in AllRuns :
        (ValidateReturned(r) /\ is_valid[r]) => RepoStatsInvariant(validated[r])

\* C7: the record clean_data wrote equals, in value and type, the
\* GithubRepoSchema instance validate_data accepted, and cleaning the
\* cleaned record gives it back.
C7_CleanedEqualsValidated ==
    \A r \in AllRuns :
        produced[r][CleanedPath] # NoFile =>
            /\ produced[r][CleanedPath].rec = validated[r]
            /\ clean_data("ok", produced[r][CleanedPath].rec).rec
                   = produced[r][CleanedPath].rec

NonNegCounts(rec) ==
    \A f \in CountFieldSet : rec[f].t = "int" /\ rec[f].n >= 0

\* ratio, in hundredths, is a hundredth nearest to stars / (watchers + 1)
NearestHundredth(ratio, stars, watchers) ==
    /\ 2 * (ratio * (watchers + 1) - 100 * stars) <= watchers + 1
    /\ 2 * (100 * stars - ratio * (watchers + 1)) <= watchers + 1

\* C8: for a cleaned record with integer counts >= 0 perform_aggregation
\* writes the reference aggregate: the name, the sum of the three counts,
\* the three counts and stars / (watchers + 1) rounded to 2 decimals; it
\* does not fail on such a record; 18000, 500, 1800 give 20300 and 35.93.
C8_AggregateIsReference ==
    \A r \in AllRuns :
        LET c == produced[r][CleanedPath].rec
            a == produced[r][AggregatedPath].agg
            stars == c["stargazers_count"].n
            watchers == c["watchers_count"].n
            forks == c["forks_count"].n
        IN  /\ (produced[r][AggregatedPath] # NoFile /\ NonNegCounts(c)) =>
                   /\ a.repository_name = c["name"]
                   /\ a.total_engagement = stars + watchers + forks
                   /\ a.metrics = [total_stars |-> stars, total_watchers |-> watchers,
                                   total_forks |-> forks]
                   /\ NearestHundredth(a.engagement_ratio, stars, watchers)
                   /\ (stars = 18000 /\ watchers = 500 /\ forks = 1800) =>
                          (a.total_engagement = 20300 /\ a.engagement_ratio = 3593)
            /\ (error[r].task = "aggregate"
                  /\ error[r].exc \in {"TypeError", "ZeroDivisionError", "KeyError"}) =>
                   ~NonNegCounts(c)

\* the record of scenario A was aggregated
C8_Witness ==
    /\ produced[1][AggregatedPath] # NoFile
    /\ produced[1][CleanedPath].rec["stargazers_count"] = IntV(18000)
    /\ produced[1][CleanedPath].rec["watchers_count"] = IntV(500)
    /\ produced[1][CleanedPath].rec["forks_count"] = IntV(1800)
    /\ produced[1][AggregatedPath].agg.engagement_ratio = 3593

\* C9: of two runs side by side each derives its flattened, validated,
\* cleaned and aggregated record from the record it fetched itself, and
\* uploads what it wrote itself.
C9_RunsShareNoState ==
    \A r \in AllRuns :
        LET own == Flatten(response[r].rec)
        IN  /\ produced[r][FlattenedPath(flow[r])] # NoFile =>
                   produced[r][FlattenedPath(flow[r])].rec = own
            /\ (ran[r]["validate"] > 0 /\ seen[r].rd = "ok") => seen[r].rec = own
            /\ produced[r][CleanedPath] # NoFile =>
                   produced[r][CleanedPath].rec = own
            /\ produced[r][AggregatedPath] # NoFile =>
                   produced[r][AggregatedPath].agg = perform_aggregation("ok", own).agg
            /\ \A k \in Keys :
                   uploaded[r][k] # NoFile => uploaded[r][k] = produced[r][k]

\* C10: in every run each stage's body executes at most once and no task is
\* attempted again, validate_data of etl_cicd_pipeline (retries=2) included.
C10_EachStageAtMostOnce ==
    \A r \in AllRuns :
        /\ \A t \in Stages : ran[r][t] <= 1
        /\ attempt[r] = 0

\* validate_data of etl_cicd_pipeline raised inside its try block (the
\* business rule) and still executed once
C10_Witness ==
    /\ flow[1] = "cicd" /\ pc[1] = "rejected"
    /\ message[1].body = NoneText
    /\ ran[1]["validate"] = 1

\* the stages main() calls after the given one
Later(t) ==
    CASE t = "clean" -> {"save_cleaned", "aggregate", "save_aggregated"}
      [] t = "save_cleaned" -> {"aggregate", "save_aggregated"}
      [] t = "aggregate" -> {"save_aggregated"}
      [] OTHER -> {}

\* C11: an exception raised in clean_data, perform_aggregation or an upload
\* step ends the run as failed with that exception and no later stage
\* executes; and when validate_data cannot read or parse the flattened file
\* (neither a schema nor a business-rule violation) the run does not end up
\* with the (False, message) result of a rejection.
C11_FailuresStayDistinct ==
    \A r \in AllRuns :
        /\ (pc[r] = "failed" /\ error[r].task \in Downstream) =>
               /\ error[r].exc # ""
               /\ \A t \in Later(error[r].task) : ran[r][t] = 0
        /\ (ran[r]["validate"] > 0 /\ pc[r] # "validate" /\ seen[r].rd # "ok") =>
               ~(ValidateReturned(r) /\ ~is_valid[r])

\* C12: in etl_cicd_pipeline, when submitting the message fails inside
\* send_completion_notification the aggregated file is uploaded, the task
\* returns after one execution and the flow completes; when it fails inside
\* send_error_email validate_data returns is_valid = False after one
\* execution and the flow stops as rejected; no exception fails the run.
C12_FailedSendChangesNothing ==
    \A r \in AllRuns :
        (flow[r] = "cicd" /\ notify[r] = "submit_failed") =>
            /\ error[r] = NoError
            /\ IF ran[r]["save_aggregated"] > 0
               THEN /\ pc[r] = "completed"
                    /\ uploaded[r][AggregatedPath] # NoFile
                    /\ ran[r]["save_aggregated"] = 1
                    /\ "etl-pipeline-completed" \notin emails[r]
               ELSE /\ ValidateReturned(r)
                    /\ ~is_valid[r]
                    /\ pc[r] = "rejected"
                    /\ ran[r]["validate"] = 1
                    /\ emails[r] = {}

C12_Witness ==
    /\ flow[1] = "cicd"
    /\ notify[1] = "submit_failed"
    /\ pc[1] = "completed"

C12_WitnessRejected ==
    /\ flow[1] = "cicd"
    /\ notify[1] = "submit_failed"
    /\ pc[1] = "rejected"

\* the bounds on the executions of data_processing_flow and what its two
\* ends tell
WorkerBounded ==
    /\ worker.bodies_here <= 3
    /\ worker.bodies <= 6
    /\ worker.flow_runs <= 2
    /\ worker.pc = "failed" =>
           /\ worker.flow_runs = 2
           /\ worker.bodies = 6
           /\ worker.raises = 6
           /\ ~worker.returned
    /\ worker.returned =>
           /\ worker.pc = "completed"
           /\ worker.validations = 1
           /\ worker.raises = worker.bodies - 1
           /\ worker.result = process_data(worker.input, FALSE).result
           /\ worker.is_valid

WorkerDone == worker.pc \in {"completed", "failed"}

\* C13: in every run of data_processing_flow process_data's body executes at
\* most 3 times per execution of the flow body and 6 times in all, the flow
\* body at most twice; the run ends failed only after process_data raised in
\* all 3 executions of both flow attempts; when the flow returns,
\* validate_result ran on the result of a process_data that did not raise and
\* is_valid is True; and every run ends, completed or failed.
C13_RetriesBoundedAndTerminates == []WorkerBounded /\ <>WorkerDone

C13_Witness ==
    /\ worker.pc = "failed"
    /\ worker.bodies = 6
    /\ worker.flow_runs = 2

C13_WitnessReturned ==
    /\ worker.returned
    /\ worker.flow_runs = 2
    /\ worker.bodies_here = 3

====
